---- MODULE Spec2Model ----
(***************************************************************************)
(* win-syscolor: SysColor::get, get_sys_color and the OnceBool presence    *)
(* cache of src/lib.rs, as a state machine of concurrent callers.          *)
(*                                                                         *)
(* Every shared access of the code is one step: the Acquire load of the    *)
(* cell (with the call that leads to it), the probe (GetSysColorBrush),    *)
(* the compare_exchange, and the raw read (GetSysColor).  The code between *)
(* two shared accesses (the match, the `if !present`) touches only locals  *)
(* and is part of the step that precedes it: so is the panic of            *)
(* closure.take().unwrap() on None, which no shared access precedes.       *)
(*                                                                         *)
(* A panic unwinds the calling thread only: the cells are plain atomics    *)
(* and stay as they are.  Under panic=abort the process stops there, which *)
(* is the behaviour of Spec that stutters forever after the panic.         *)
(***************************************************************************)
EXTENDS Integers, Sequences, FiniteSets, TLC

\* Bound of the model: the threads that call SysColor::get.
NumThreads == 2

\* lib.rs:160-162
UNINIT == 255
FALSE_ == 0
TRUE_ == 1

\* lib.rs:127-155, the macro's `$wname => $name` list.
ColorTable ==
    << <<"COLOR_3DDKSHADOW", "ThreeDDarkShadow">>,
       <<"COLOR_ACTIVEBORDER", "ActiveBorder">>,
       <<"COLOR_ACTIVECAPTION", "ActiveCaption">>,
       <<"COLOR_APPWORKSPACE", "AppWorkspace">>,
       <<"COLOR_BACKGROUND", "Background">>,
       <<"COLOR_BTNFACE", "ButtonFace">>,
       <<"COLOR_BTNHIGHLIGHT", "ButtonHighlight">>,
       <<"COLOR_BTNSHADOW", "ButtonShadow">>,
       <<"COLOR_BTNTEXT", "ButtonText">>,
       <<"COLOR_CAPTIONTEXT", "CaptionText">>,
       <<"COLOR_GRADIENTACTIVECAPTION", "GradientActiveCaption">>,
       <<"COLOR_GRADIENTINACTIVECAPTION", "GradientInactiveCaption">>,
       <<"COLOR_GRAYTEXT", "GrayText">>,
       <<"COLOR_HIGHLIGHT", "Highlight">>,
       <<"COLOR_HIGHLIGHTTEXT", "HighlightText">>,
       <<"COLOR_HOTLIGHT", "HotLight">>,
       <<"COLOR_INACTIVEBORDER", "InactiveBorder">>,
       <<"COLOR_INACTIVECAPTION", "InactiveCaption">>,
       <<"COLOR_INACTIVECAPTIONTEXT", "InactiveCaptionText">>,
       <<"COLOR_INFOBK", "InfoBackground">>,
       <<"COLOR_INFOTEXT", "InfoText">>,
       <<"COLOR_MENU", "Menu">>,
       <<"COLOR_MENUTEXT", "MenuText">>,
       <<"COLOR_SCROLLBAR", "ScrollBar">>,
       <<"COLOR_WINDOW", "Window">>,
       <<"COLOR_WINDOWFRAME", "WindowFrame">>,
       <<"COLOR_WINDOWTEXT", "WindowText">> >>

Threads == 1..NumThreads

\* The variants of SysColorIndex the model calls with, two of the 27.
SysColorIndex == {ColorTable[k][2] : k \in {1, 2}}
\* The native constants Gdi::$wname the platform is asked about.
Natives == {ColorTable[k][1] : k \in {1, 2}}
\* The raw values the platform holds at one time or another, two of the u32.
Colors == {0, 1}

\* SysColor::get's match arm for `index`: the $wname passed to get_sys_color.
NativeOf(index) ==
    ColorTable[CHOOSE k \in 1..Len(ColorTable) : ColorTable[k][2] = index][1]

\* A bug: the static declared once, outside the match, and shared by all arms.
PresentOfShared(index) == ColorTable[1][2]

\* SysColor::get's match arm for `index`: the arm's own `static PRESENT`.
PresentOf(index) == index

VARIABLES
    cell,      \* cell[i]: the byte of the static PRESENT of variant i
    brush,     \* platform: brush[n], GetSysColorBrush(n) != 0
    sysColor,  \* platform: sysColor[n], what GetSysColor(n) returns
    pc,        \* pc[t]: where thread t's SysColor::get call stands
    index,     \* the call's argument
    value,     \* get_or_init's local `value`
    closure,   \* get_or_init's local `closure`: "Some" or "None"
    new_value, \* get_or_init's local `new_value`
    present,   \* get_sys_color's local `present` (FALSE until it is set)
    result,    \* the call's result: <<"pending">>, <<"None">>, <<"Some", c>>
    loaded,    \* history: the byte the call's first load read
    probeRet,  \* history: <<b>> once the running call's probe returned b;
               \* << >> before, and again when the call is over
    casDone,   \* history: the call's compare_exchange: "none", "ok", "fail"
    probes,    \* history: the probe invocations the call has made
    cass,      \* history: the compare_exchange attempts the call has made
    reads,     \* history: the GetSysColor reads the call has made
    atRead,    \* history: sysColor of the call's native when it was read
    installed, \* history: installed[i] = <<b>>, the probe result b of the
               \* call whose compare_exchange wrote cell i, else << >>
    prev,      \* history (SpecSeq): how thread 1's preceding call of the same
               \* index ended, "void" if the platform changed since it began
    steady,    \* history (SpecSeq): no platform change since thread 1's call
    this,      \* SpecValue: a SysColor in a caller's hands (`self`), its u32
    that,      \* SpecValue: a second SysColor, for == and cmp
    op,        \* SpecValue: the operation applied last
    ret        \* SpecValue: what that operation returned

vars == <<cell, brush, sysColor, pc, index, value, closure, new_value, present,
          result, loaded, probeRet, casDone, probes, cass, reads, atRead,
          installed, prev, steady, this, that, op, ret>>

platform == <<brush, sysColor>>
tracking == <<prev, steady>>
valueVars == <<this, that, op, ret>>

Done == {"returned", "panicked"}
NoIndex == "-"

\* OnceBool::new: AtomicU8::new(UNINIT).
OnceBoolNew == UNINIT

Init ==
    /\ cell = [i \in SysColorIndex |-> OnceBoolNew]
    /\ brush \in [Natives -> BOOLEAN]
    /\ sysColor \in [Natives -> Colors]
    /\ pc = [t \in Threads |-> "idle"]
    /\ index = [t \in Threads |-> NoIndex]
    /\ value = [t \in Threads |-> UNINIT]
    /\ closure = [t \in Threads |-> "None"]
    /\ new_value = [t \in Threads |-> UNINIT]
    /\ present = [t \in Threads |-> FALSE]
    /\ result = [t \in Threads |-> <<"pending">>]
    /\ loaded = [t \in Threads |-> UNINIT]
    /\ probeRet = [t \in Threads |-> << >>]
    /\ casDone = [t \in Threads |-> "none"]
    /\ probes = [t \in Threads |-> 0]
    /\ cass = [t \in Threads |-> 0]
    /\ reads = [t \in Threads |-> 0]
    /\ atRead = [t \in Threads |-> 0]
    /\ installed = [i \in SysColorIndex |-> << >>]
    /\ prev = "void"
    /\ steady = FALSE
    /\ this = 0
    /\ that = 0
    /\ op = "none"
    /\ ret = << >>

\* How a finished call ended: "Some", "None" or "panic".
Outcome(t) == IF pc[t] = "panicked" THEN "panic" ELSE result[t][1]

\* get_or_init has returned to get_sys_color in t's current call.
InitReturned(t) == pc[t] \in {"fetch", "returned"}

----------------------------------------------------------------------------
\* The platform.

\* Gdi::GetSysColorBrush(n), compared with 0 by the probe closure.
GetSysColorBrush(n) == brush[n]

\* Gdi::GetSysColor(n).
GetSysColor(n) == sysColor[n]

----------------------------------------------------------------------------
\* OnceBool::get_or_init and get_sys_color.

\* A bug: the probe's test the wrong way round (`brush == 0`).
AsU8Inverted(b) == IF b THEN 0 ELSE 1

\* A bug: the boolean stored as a flag bit (`(b as u8) << 1`).
AsU8Flag(b) == IF b THEN 2 ELSE 0

\* `b as u8`
AsU8(b) == IF b THEN 1 ELSE 0

\* A bug: 0 taken for "not yet initialized", so that only TRUE is cached.
MatchTrueOnly(v) ==
    CASE v = TRUE_ -> <<"return", TRUE>>
      [] OTHER -> <<"continue">>

\* A bug: the TRUE arm missing, so that only FALSE is cached.
MatchFalseOnly(v) ==
    CASE v = FALSE_ -> <<"return", FALSE>>
      [] OTHER -> <<"continue">>

\* A bug: the two constant arms with their booleans exchanged.
MatchSwapped(v) ==
    CASE v = TRUE_ -> <<"return", FALSE>>
      [] v = FALSE_ -> <<"return", TRUE>>
      [] OTHER -> <<"continue">>

\* The match at the head of the loop: the boolean returned, or "continue".
Match(v) ==
    CASE v = TRUE_ -> <<"return", TRUE>>
      [] v = FALSE_ -> <<"return", FALSE>>
      [] OTHER -> <<"continue">>

\* A bug: an unconditional swap in place of the compare_exchange.
CompareExchangeSwap(held, current, new) ==
    [stored |-> new, ret |-> <<"Ok", held>>]

\* A bug: the failed compare_exchange handing back the byte it was to store
\* in place of the byte it found.
CompareExchangeErrNew(held, current, new) ==
    IF held = current
        THEN [stored |-> new, ret |-> <<"Ok", held>>]
        ELSE [stored |-> held, ret |-> <<"Err", new>>]

\* AtomicU8::compare_exchange(current, new) on a cell holding `held`:
\* the byte left in the cell and the Result returned.
CompareExchange(held, current, new) ==
    IF held = current
        THEN [stored |-> new, ret |-> <<"Ok", held>>]
        ELSE [stored |-> held, ret |-> <<"Err", held>>]

\* Result::unwrap_or_else(|x| x): the payload, of Ok and of Err alike.
UnwrapOrElseId(r) == r[2]

\* A bug: the constructor normalising the raw value (its low bit dropped).
SysColorNewMasked(color) == color - (color % 2)

\* SysColor::new
SysColorNew(color) == color

\* get_or_init is left, by return or by unwinding: its locals are gone.
DropLocals(t) ==
    /\ value' = [value EXCEPT ![t] = UNINIT]
    /\ closure' = [closure EXCEPT ![t] = "None"]
    /\ new_value' = [new_value EXCEPT ![t] = UNINIT]

\* A bug: `if present { return None; }`.
AfterInitInverted(t, b) ==
    /\ present' = [present EXCEPT ![t] = b]
    /\ IF b
         THEN /\ pc' = [pc EXCEPT ![t] = "returned"]
              /\ result' = [result EXCEPT ![t] = <<"None">>]
         ELSE /\ pc' = [pc EXCEPT ![t] = "fetch"]
              /\ result' = [result EXCEPT ![t] = <<"pending">>]

\* get_sys_color once get_or_init returned `b`: None at once (`if !present`),
\* or on to the raw read.
AfterInit(t, b) ==
    /\ present' = [present EXCEPT ![t] = b]
    /\ IF ~b
         THEN /\ pc' = [pc EXCEPT ![t] = "returned"]
              /\ result' = [result EXCEPT ![t] = <<"None">>]
         ELSE /\ pc' = [pc EXCEPT ![t] = "fetch"]
              /\ result' = [result EXCEPT ![t] = <<"pending">>]

\* The head of get_or_init's loop with `value` = v and `closure` = clo:
\* return the boolean, or go on to closure.take().unwrap(), which panics on
\* None and else hands over the closure to be invoked.
LoopHead(t, v, clo) ==
    IF Match(v)[1] = "return"
        THEN /\ AfterInit(t, Match(v)[2])
             /\ DropLocals(t)
        ELSE IF clo = "None"
            THEN /\ pc' = [pc EXCEPT ![t] = "panicked"]
                 /\ DropLocals(t)
                 /\ UNCHANGED <<present, result>>
            ELSE /\ pc' = [pc EXCEPT ![t] = "probe"]
                 /\ value' = [value EXCEPT ![t] = v]
                 /\ closure' = [closure EXCEPT ![t] = clo]
                 /\ UNCHANGED <<new_value, present, result>>

\* Thread t calls SysColor::get(i) (after a finished call too, and after a
\* panic it caught) and get_or_init runs up to its first loop head:
\*   let mut value = self.0.load(Acquire); let mut closure = Some(f);
Start(t, i) ==
    /\ pc[t] \in {"idle"} \cup Done
    /\ index' = [index EXCEPT ![t] = i]
    /\ loaded' = [loaded EXCEPT ![t] = cell[PresentOf(i)]]
    /\ probeRet' = [probeRet EXCEPT ![t] = << >>]
    /\ casDone' = [casDone EXCEPT ![t] = "none"]
    /\ probes' = [probes EXCEPT ![t] = 0]
    /\ cass' = [cass EXCEPT ![t] = 0]
    /\ reads' = [reads EXCEPT ![t] = 0]
    /\ atRead' = [atRead EXCEPT ![t] = 0]
    /\ IF Match(cell[PresentOf(i)])[1] = "return"
         THEN LoopHead(t, cell[PresentOf(i)], "Some")
         ELSE \* on to the closure, which is Some(f); the call's locals are new
              /\ pc' = [pc EXCEPT ![t] = "probe"]
              /\ value' = [value EXCEPT ![t] = cell[PresentOf(i)]]
              /\ closure' = [closure EXCEPT ![t] = "Some"]
              /\ new_value' = [new_value EXCEPT ![t] = UNINIT]
              /\ present' = [present EXCEPT ![t] = FALSE]
              /\ result' = [result EXCEPT ![t] = <<"pending">>]
    /\ UNCHANGED <<cell, platform, installed, valueVars>>

Call(t, i) ==
    /\ Start(t, i)
    /\ UNCHANGED tracking

\* A bug: the closure invoked through a reference (`closure.as_ref()`), so
\* that it is still there on the loop's next pass.
ProbeNoTake(t) ==
    /\ pc[t] = "probe"
    /\ closure[t] = "Some"
    /\ LET b == GetSysColorBrush(NativeOf(index[t])) IN
         /\ new_value' = [new_value EXCEPT ![t] = AsU8(b)]
         /\ probeRet' = [probeRet EXCEPT ![t] = <<b>>]
         /\ probes' = [probes EXCEPT ![t] = @ + 1]
         /\ pc' = [pc EXCEPT ![t] = "cas"]
    /\ UNCHANGED <<cell, platform, index, value, closure, present, result,
                   loaded, casDone, cass, reads, atRead, installed, tracking,
                   valueVars>>

\* let new_value = (closure.take().unwrap())() as u8;  with closure = Some(f):
\* f is taken and invoked.
Probe(t) ==
    /\ pc[t] = "probe"
    /\ closure[t] = "Some"
    /\ LET b == GetSysColorBrush(NativeOf(index[t])) IN
         /\ closure' = [closure EXCEPT ![t] = "None"]
         /\ new_value' = [new_value EXCEPT ![t] = AsU8(b)]
         /\ probeRet' = [probeRet EXCEPT ![t] = <<b>>]
         /\ probes' = [probes EXCEPT ![t] = @ + 1]
         /\ pc' = [pc EXCEPT ![t] = "cas"]
    /\ UNCHANGED <<cell, platform, index, value, present, result, loaded,
                   casDone, cass, reads, atRead, installed, tracking,
                   valueVars>>

\* value = self.0.compare_exchange(value, new_value, ..).unwrap_or_else(|x| x);
\* and the loop's next pass up to its return or its panic.
Cas(t) ==
    /\ pc[t] = "cas"
    /\ LET c == PresentOf(index[t])
           x == CompareExchange(cell[c], value[t], new_value[t])
       IN /\ cell' = [cell EXCEPT ![c] = x.stored]
          /\ casDone' = [casDone EXCEPT ![t] =
                           IF x.ret[1] = "Ok" THEN "ok" ELSE "fail"]
          /\ installed' = [installed EXCEPT ![c] =
                             IF x.ret[1] = "Ok" THEN probeRet[t] ELSE @]
          /\ LoopHead(t, UnwrapOrElseId(x.ret), closure[t])
    /\ probeRet' = [probeRet EXCEPT ![t] = IF pc'[t] \in Done THEN << >> ELSE @]
    /\ cass' = [cass EXCEPT ![t] = @ + 1]
    /\ UNCHANGED <<platform, index, loaded, probes, reads, atRead, tracking,
                   valueVars>>

\* let color = unsafe { Gdi::GetSysColor(index) }; Some(color), and
\* SysColor::get's .map(SysColor::new)
Fetch(t) ==
    /\ pc[t] = "fetch"
    /\ result' = [result EXCEPT
                    ![t] = <<"Some", SysColorNew(GetSysColor(NativeOf(index[t])))>>]
    /\ reads' = [reads EXCEPT ![t] = @ + 1]
    /\ atRead' = [atRead EXCEPT ![t] = sysColor[NativeOf(index[t])]]
    /\ probeRet' = [probeRet EXCEPT ![t] = << >>]
    /\ pc' = [pc EXCEPT ![t] = "returned"]
    /\ UNCHANGED <<cell, platform, index, value, closure, new_value, present,
                   loaded, casDone, probes, cass, installed, tracking,
                   valueVars>>

----------------------------------------------------------------------------
\* The environment: the theme or the OS changes what the platform answers.

BrushChange(n) ==
    /\ brush' = [brush EXCEPT ![n] = ~brush[n]]
    /\ prev' = "void"
    /\ steady' = FALSE
    /\ UNCHANGED <<cell, sysColor, pc, index, value, closure, new_value,
                   present, result, loaded, probeRet, casDone, probes, cass,
                   reads, atRead, installed, valueVars>>

ColorChange(n, c) ==
    /\ c # sysColor[n]
    /\ sysColor' = [sysColor EXCEPT ![n] = c]
    /\ prev' = "void"
    /\ steady' = FALSE
    /\ UNCHANGED <<cell, brush, pc, index, value, closure, new_value,
                   present, result, loaded, probeRet, casDone, probes, cass,
                   reads, atRead, installed, valueVars>>

Next ==
    \/ \E t \in Threads, i \in SysColorIndex : Call(t, i)
    \/ \E t \in Threads : Probe(t)
    \/ \E t \in Threads : Cas(t)
    \/ \E t \in Threads : Fetch(t)
    \/ \E n \in Natives : BrushChange(n)
    \/ \E n \in Natives, c \in Colors : ColorChange(n, c)

Spec == Init /\ [][Next]_vars

\* Thread 1's call, with the outcome of its preceding call kept for the
\* comparison of two calls made one after the other.
CallSeq(i) ==
    /\ Start(1, i)
    /\ prev' = IF pc[1] \in Done /\ index[1] = i /\ steady
                   THEN Outcome(1) ELSE "void"
    /\ steady' = TRUE

NextSeq ==
    \/ \E i \in SysColorIndex : CallSeq(i)
    \/ \E t \in Threads \ {1}, i \in SysColorIndex : Call(t, i)
    \/ \E t \in Threads : Probe(t)
    \/ \E t \in Threads : Cas(t)
    \/ \E t \in Threads : Fetch(t)
    \/ \E n \in Natives : BrushChange(n)
    \/ \E n \in Natives, c \in Colors : ColorChange(n, c)

SpecSeq == Init /\ [][NextSeq]_vars

----------------------------------------------------------------------------
\* The SysColor value: its accessors, its formatting, its derived comparisons.
\* A SysColor stands for its one field, the u32 it wraps.

\* The SysColor values the operations are applied to: every combination of
\* three bytes per channel and three high bytes, 0x00CCBBAA among them. They
\* stay under 2^31, the range of TLC's integers.
Samples ==
    {r + g * 2^8 + b * 2^16 + h * 2^24 :
        r \in {0, 10, 170}, g \in {0, 11, 187}, b \in {12, 204, 255},
        h \in {0, 1, 127}}

\* `a & b` on u32: the bitwise and, bit by bit from the lowest.
RECURSIVE BitAnd(_, _)
BitAnd(a, b) ==
    IF a = 0 \/ b = 0
        THEN 0
        ELSE (a % 2) * (b % 2) + 2 * BitAnd(a \div 2, b \div 2)

\* `a >> k` on u32: the logical shift right.
Shr(a, k) == a \div 2^k

\* `x as u8` on a u32: the low eight bits.
TruncU8(x) == x % 2^8

\* SysColor::raw.
Raw(self) == self

\* SysColor::red.
Red(self) == TruncU8(BitAnd(self, 255))

\* A bug: green taken from the bits blue is taken from.
GreenShift16(self) == TruncU8(BitAnd(Shr(self, 16), 255))

\* SysColor::green.
Green(self) == TruncU8(BitAnd(Shr(self, 8), 255))

\* SysColor::blue.
Blue(self) == TruncU8(BitAnd(Shr(self, 16), 255))

\* The digits of the `X` format, by value.
HexDigits ==
    <<"0", "1", "2", "3", "4", "5", "6", "7", "8", "9",
      "A", "B", "C", "D", "E", "F">>

\* `{:X}` of a u8: its digits in base 16, most significant first, as many as
\* the number needs.
RECURSIVE UpperHex(_)
UpperHex(n) ==
    IF n < 16
        THEN <<HexDigits[n + 1]>>
        ELSE UpperHex(n \div 16) \o <<HexDigits[(n % 16) + 1]>>

\* The `0` flag with a width: zeros in front until `width` characters.
RECURSIVE PadZero(_, _)
PadZero(s, width) ==
    IF Len(s) >= width THEN s ELSE PadZero(<<"0">> \o s, width)

\* A bug: `{:X}`, the width and the zero flag left out.
FormatX(n) == UpperHex(n)

\* `{:02X}` of a u8.
Format02X(n) == PadZero(UpperHex(n), 2)

\* <SysColor as Display>::fmt: write!(f, "#{:02X}{:02X}{:02X}", red, green,
\* blue), as the sequence of the characters written.
Display(self) ==
    <<"#">> \o Format02X(Red(self)) \o Format02X(Green(self))
            \o Format02X(Blue(self))

\* A bug: equality of what is displayed, the three channels.
EqChannels(self, rhs) == self % 2^24 = rhs % 2^24

\* #[derive(PartialEq, Eq)]: equality of the one field.
Eq(self, rhs) == self = rhs

\* #[derive(PartialOrd, Ord)]: the order of the one field, a u32.
Cmp(self, rhs) ==
    IF self < rhs THEN "Less"
    ELSE IF self = rhs THEN "Equal"
    ELSE "Greater"

\* Everything but the SysColor value and what is done with it.
programVars ==
    <<cell, platform, pc, index, value, closure, new_value, present, result,
      loaded, probeRet, casDone, probes, cass, reads, atRead, installed,
      tracking>>

\* No call of SysColor::get under way; a caller holds one of the samples.
\* `that` is the right-hand side of the comparison applied last, and `this`
\* again after an operation that has no right-hand side.
InitValue ==
    /\ cell = [i \in SysColorIndex |-> OnceBoolNew]
    /\ brush = [n \in Natives |-> FALSE]
    /\ sysColor = [n \in Natives |-> 0]
    /\ pc = [t \in Threads |-> "idle"]
    /\ index = [t \in Threads |-> NoIndex]
    /\ value = [t \in Threads |-> UNINIT]
    /\ closure = [t \in Threads |-> "None"]
    /\ new_value = [t \in Threads |-> UNINIT]
    /\ present = [t \in Threads |-> FALSE]
    /\ result = [t \in Threads |-> <<"pending">>]
    /\ loaded = [t \in Threads |-> UNINIT]
    /\ probeRet = [t \in Threads |-> << >>]
    /\ casDone = [t \in Threads |-> "none"]
    /\ probes = [t \in Threads |-> 0]
    /\ cass = [t \in Threads |-> 0]
    /\ reads = [t \in Threads |-> 0]
    /\ atRead = [t \in Threads |-> 0]
    /\ installed = [i \in SysColorIndex |-> << >>]
    /\ prev = "void"
    /\ steady = FALSE
    /\ this \in Samples
    /\ that = this
    /\ op = "none"
    /\ ret = << >>

\* this.raw()
RawOp ==
    /\ op' = "raw"
    /\ ret' = <<Raw(this)>>
    /\ that' = this
    /\ UNCHANGED <<programVars, this>>

\* this.red()
RedOp ==
    /\ op' = "red"
    /\ ret' = <<Red(this)>>
    /\ that' = this
    /\ UNCHANGED <<programVars, this>>

\* this.green()
GreenOp ==
    /\ op' = "green"
    /\ ret' = <<Green(this)>>
    /\ that' = this
    /\ UNCHANGED <<programVars, this>>

\* this.blue()
BlueOp ==
    /\ op' = "blue"
    /\ ret' = <<Blue(this)>>
    /\ that' = this
    /\ UNCHANGED <<programVars, this>>

\* format!("{}", this)
DisplayOp ==
    /\ op' = "fmt"
    /\ ret' = Display(this)
    /\ that' = this
    /\ UNCHANGED <<programVars, this>>

\* this == rhs
EqOp(rhs) ==
    /\ op' = "eq"
    /\ that' = rhs
    /\ ret' = <<Eq(this, rhs)>>
    /\ UNCHANGED <<programVars, this>>

\* this.cmp(&rhs)
CmpOp(rhs) ==
    /\ op' = "cmp"
    /\ that' = rhs
    /\ ret' = <<Cmp(this, rhs)>>
    /\ UNCHANGED <<programVars, this>>

NextValue ==
    \/ RawOp
    \/ RedOp
    \/ GreenOp
    \/ BlueOp
    \/ DisplayOp
    \/ \E rhs \in Samples : EqOp(rhs)
    \/ \E rhs \in Samples : CmpOp(rhs)

SpecValue == InitValue /\ [][NextValue]_vars

----------------------------------------------------------------------------
\* The claims.

\* The byte that stands for a boolean in a cell.
ByteOf(b) == IF b THEN TRUE_ ELSE FALSE_

\* The cell of the call thread t is in.
CellOf(t) == cell[PresentOf(index[t])]

\* C1: a get_or_init call whose compare-and-swap installed the value has
\* returned to its caller the boolean its probe produced, and the cell holds
\* that boolean.
C1_WinnerReturnsItsProbe ==
    \A t \in Threads :
        casDone[t] = "ok" =>
            /\ InitReturned(t)
            /\ installed[PresentOf(index[t])] = <<present[t]>>
            /\ CellOf(t) = ByteOf(present[t])

\* C2: no SysColor::get call ends in a panic; a call that has ended has
\* ended with Some(color) or None.
C2_NeverPanics ==
    \A t \in Threads :
        /\ pc[t] # "panicked"
        /\ pc[t] = "returned" =>
              \/ result[t] = <<"None">>
              \/ \E c \in Colors : result[t] = <<"Some", c>>

\* C3: agreement: every boolean get_or_init has returned equals the terminal
\* value of its cell, so no two calls on one cell returned different
\* booleans.
C3_Agreement ==
    /\ \A t \in Threads :
          InitReturned(t) => CellOf(t) = ByteOf(present[t])
    /\ \A t, u \in Threads :
          (InitReturned(t) /\ InitReturned(u) /\ index[t] = index[u])
              => present[t] = present[u]

\* get_or_init has returned the same boolean to two calls on one cell
\* although the probe of one of them, which lost the race, had returned the
\* other boolean.
C3_Witness ==
    \E t, u \in Threads :
        /\ t # u /\ index[t] = index[u]
        /\ pc[t] = "fetch" /\ InitReturned(u)
        /\ casDone[t] = "fail" /\ probeRet[t] = <<~present[t]>>
        /\ present[u] = present[t]

\* C4: every cell starts Uninitialized, the only changes of a cell are
\* Uninitialized -> False and Uninitialized -> True, and a cell that is False
\* or True never changes again.
C4_WriteOnce ==
    /\ \A i \in SysColorIndex : cell[i] = UNINIT
    /\ [][\A i \in SysColorIndex :
            cell'[i] # cell[i] =>
                cell[i] = UNINIT /\ cell'[i] \in {FALSE_, TRUE_}]_vars

\* A compare_exchange has run against a cell that was already terminal, and
\* the cell kept the value installed before.
C4_Witness ==
    \E t \in Threads :
        /\ casDone[t] = "fail"
        /\ pc[t] = "fetch"
        /\ CellOf(t) = TRUE_
        /\ probeRet[t] = <<FALSE>>

\* C5: a call that starts when the cell is terminal never invokes its probe,
\* attempts no compare-and-swap and returns the cached value.
C5_CachedNoProbe ==
    \A t \in Threads :
        (pc[t] # "idle" /\ loaded[t] # UNINIT) =>
            /\ probeRet[t] = << >>
            /\ casDone[t] = "none"
            /\ InitReturned(t)
            /\ ByteOf(present[t]) = loaded[t]
            /\ pc[t] = "returned" =>
                  result[t][1] = (IF loaded[t] = TRUE_ THEN "Some" ELSE "None")

\* A call that started on a terminal cell has returned the cached presence
\* although the platform's probe now answers the opposite.
C5_Witness ==
    \E t \in Threads :
        /\ pc[t] = "returned"
        /\ loaded[t] # UNINIT
        /\ GetSysColorBrush(NativeOf(index[t])) # present[t]

\* C6: validity: a terminal cell holds the boolean returned by the probe
\* invocation of the get_or_init call that wrote it; an Uninitialized cell
\* has been written by none.
C6_Validity ==
    \A i \in SysColorIndex :
        IF cell[i] = UNINIT
            THEN installed[i] = << >>
            ELSE \E b \in BOOLEAN :
                    installed[i] = <<b>> /\ cell[i] = ByteOf(b)

\* Both booleans have been installed from probe results, one in each cell.
C6_Witness ==
    \E i, j \in SysColorIndex :
        installed[i] = <<TRUE>> /\ installed[j] = <<FALSE>>

\* C7: laziness: the raw-value read is made only in a call whose presence
\* resolution has returned true, after it, and only for an index one of whose
\* probes returned true.
C7_Laziness ==
    \A t \in Threads :
        /\ (pc[t] = "fetch" \/ reads[t] > 0 \/ result[t][1] = "Some") =>
              /\ InitReturned(t)
              /\ present[t]
              /\ installed[PresentOf(index[t])] = <<TRUE>>
        /\ (pc[t] = "returned" /\ ~present[t]) =>
              reads[t] = 0 /\ result[t] = <<"None">>

\* An accessor call for an index whose probe returned false has returned
\* None without a raw-value read, although the platform would now say
\* present.
C7_Witness ==
    \E t \in Threads :
        /\ pc[t] = "returned" /\ result[t] = <<"None">> /\ reads[t] = 0
        /\ installed[PresentOf(index[t])] = <<FALSE>>
        /\ brush[NativeOf(index[t])]

\* C8: the color is not cached: a call for an index whose presence is True
\* makes one raw-value read and returns the value the platform held at that
\* read.
C8_LiveColor ==
    \A t \in Threads :
        /\ (pc[t] # "idle" /\ loaded[t] = TRUE_) => pc[t] \in {"fetch", "returned"}
        /\ (pc[t] = "fetch") => reads[t] = 0
        /\ (pc[t] = "returned" /\ present[t]) =>
              reads[t] = 1 /\ result[t] = <<"Some", atRead[t]>>

\* Two calls for one index, both started with the presence True, have
\* returned different colors: the platform value changed between them.
C8_Witness ==
    \E t, u \in Threads :
        /\ index[t] = index[u]
        /\ pc[t] = "returned" /\ pc[u] = "returned"
        /\ loaded[t] = TRUE_ /\ loaded[u] = TRUE_
        /\ result[t][1] = "Some" /\ result[u][1] = "Some"
        /\ result[t] # result[u]
        /\ result[u][2] = sysColor[NativeOf(index[u])]

\* C9 (under SpecSeq): two calls of thread 1 for one index, one after the
\* other with the platform unchanged since the first began, both yield a
\* result, and the two have the same present/absent status.
C9_PresenceStable ==
    (pc[1] \in Done /\ prev # "void") =>
        /\ prev \in {"Some", "None"}
        /\ Outcome(1) \in {"Some", "None"}
        /\ Outcome(1) = prev

\* The native constant the macro's list gives each modelled variant.
ListedNative(i) ==
    CASE i = "ThreeDDarkShadow" -> "COLOR_3DDKSHADOW"
      [] i = "ActiveBorder" -> "COLOR_ACTIVEBORDER"

\* What the state holds of thread t's call: it changes in steps of t only.
CallRecord(t) ==
    <<pc[t], index[t], present[t], result[t], loaded[t], probeRet[t],
      casDone[t], reads[t]>>

\* C10: independence: a call for index i loads and writes the cell of i
\* only, every other cell is left as it is, and its probe and its raw read
\* ask the platform about the native constant listed for i.
C10_Independence ==
    [][/\ \A j \in SysColorIndex :
            cell'[j] # cell[j] =>
                /\ \E t \in Threads :
                      /\ pc[t] = "cas" /\ pc'[t] # "cas" /\ index[t] = j
                      /\ cell[j] = value[t] /\ cell'[j] = new_value[t]
                /\ \A k \in SysColorIndex \ {j} : cell'[k] = cell[k]
       /\ \A t \in Threads :
            /\ (pc[t] \in {"idle"} \cup Done /\ CallRecord(t)' # CallRecord(t)) =>
                  loaded'[t] = cell[index'[t]]
            /\ (casDone'[t] # casDone[t] /\ casDone'[t] = "fail") =>
                  cell[index[t]] # value[t]
            /\ (probeRet'[t] # probeRet[t] /\ probeRet'[t] # << >>) =>
                  probeRet'[t] = <<brush[ListedNative(index[t])]>>
            /\ (reads'[t] # reads[t] /\ reads'[t] > 0) =>
                  result'[t] = <<"Some", sysColor[ListedNative(index[t])]>>
      ]_vars

\* A call for one index has run to its end and read its own native's color
\* while the other index's cell is still Uninitialized and the platform
\* answers differently for the two natives.
C10_Witness ==
    \E t \in Threads, j \in SysColorIndex :
        /\ j # index[t]
        /\ pc[t] = "returned" /\ result[t][1] = "Some"
        /\ cell[j] = UNINIT
        /\ result[t][2] # sysColor[NativeOf(j)]
        /\ brush[NativeOf(j)] # brush[NativeOf(index[t])]

\* C11: a call invokes its probe at most once, attempts at most one
\* compare-and-swap and makes at most one raw read, and wherever it stands
\* before its end its own next step can be taken, whatever the other threads
\* do or do not do: scheduled alone it is over after at most four steps.
C11_NonBlocking ==
    \A t \in Threads :
        /\ probes[t] <= 1 /\ cass[t] <= 1 /\ reads[t] <= 1
        /\ pc[t] \in {"idle"} \cup Done \cup {"probe", "cas", "fetch"}
        /\ pc[t] = "probe" => ENABLED Probe(t)
        /\ pc[t] = "cas" => ENABLED Cas(t)
        /\ pc[t] = "fetch" => ENABLED Fetch(t)

\* A call that ran alone, the other threads not having started, is over
\* after one probe and one compare-and-swap.
C11_Witness ==
    \E t \in Threads :
        /\ pc[t] \in Done /\ probes[t] = 1 /\ cass[t] = 1
        /\ \A u \in Threads \ {t} : pc[u] = "idle"

\* C12: for every raw value r, red is r mod 256, green is (r div 2^8) mod 256
\* and blue is (r div 2^16) mod 256; the three channels put back together are
\* the low 24 bits of r, whatever its high byte; 0x00CCBBAA has red 0xAA,
\* green 0xBB and blue 0xCC.
C12_ChannelRoundTrip ==
    /\ op = "red" => ret = <<this % 256>>
    /\ op = "green" => ret = <<(this \div 2^8) % 256>>
    /\ op = "blue" => ret = <<(this \div 2^16) % 256>>
    /\ Red(this) + Green(this) * 2^8 + Blue(this) * 2^16 = this % 2^24
    /\ this % 2^24 = 13417386 =>
           /\ op = "red" => ret = <<170>>
           /\ op = "green" => ret = <<187>>
           /\ op = "blue" => ret = <<204>>

\* green() has been applied to 0xCCBBAA under a high byte that is not zero.
C12_Witness ==
    /\ op = "green"
    /\ this % 2^24 = 13417386
    /\ this \div 2^24 # 0
    /\ ret = <<187>>

\* C13: two colors are equal iff their raw values are equal, so two colors
\* that differ in the high byte only are unequal although their channels
\* coincide; the order of two colors is the order of their raw values.
C13_RawOrder ==
    /\ op = "eq" => ret = <<(Raw(this) = Raw(that))>>
    /\ (/\ op = "eq"
        /\ Raw(this) # Raw(that)
        /\ Red(this) = Red(that)
        /\ Green(this) = Green(that)
        /\ Blue(this) = Blue(that)) => ret = <<FALSE>>
    /\ op = "cmp" =>
           /\ ret = <<"Less">> <=> Raw(this) < Raw(that)
           /\ ret = <<"Equal">> <=> Raw(this) = Raw(that)
           /\ ret = <<"Greater">> <=> Raw(this) > Raw(that)
           /\ ret[1] \in {"Less", "Equal", "Greater"}

\* Two colors of the same channels and different high bytes were compared,
\* and found unequal.
C13_Witness ==
    /\ op = "eq"
    /\ this # that
    /\ this % 2^24 = that % 2^24
    /\ ret = <<FALSE>>

\* C14: the display form is seven characters, '#' and then red, green and
\* blue, each as two uppercase hexadecimal digits, a leading zero where the
\* channel is under 16; the high byte has no part in it; 0x00CCBBAA is
\* displayed as #AABBCC.
C14_DisplayForm ==
    op = "fmt" =>
        LET r == this % 256
            g == (this \div 2^8) % 256
            b == (this \div 2^16) % 256
        IN  /\ Len(ret) = 7
            /\ ret = <<"#", HexDigits[(r \div 16) + 1], HexDigits[(r % 16) + 1],
                            HexDigits[(g \div 16) + 1], HexDigits[(g % 16) + 1],
                            HexDigits[(b \div 16) + 1], HexDigits[(b % 16) + 1]>>
            /\ \A k \in 2..7 :
                   ret[k] \in {"0", "1", "2", "3", "4", "5", "6", "7", "8", "9",
                               "A", "B", "C", "D", "E", "F"}
            /\ ret = Display(this % 2^24)
            /\ this % 2^24 = 13417386 =>
                   ret = <<"#", "A", "A", "B", "B", "C", "C">>

\* A color whose red channel needs its leading zero, and whose high byte is
\* not zero, has been displayed.
C14_Witness ==
    /\ op = "fmt"
    /\ this % 256 = 10
    /\ this \div 2^24 # 0
    /\ ret[2] = "0"
    /\ ret[3] = "A"
    /\ Len(ret) = 7

\* C15: of the calls that loaded a cell as uninitialized, each can invoke its
\* probe whatever the others do, and at most one compare_exchange writes the
\* cell; a call whose compare_exchange failed has left the cell as the
\* earlier one wrote it, and get_or_init has returned it the boolean the
\* earlier call installed, not the one its own probe produced.
C15_FirstWriteWins ==
    /\ \A t \in Threads :
           pc[t] = "probe" /\ loaded[t] = UNINIT => ENABLED Probe(t)
    /\ \A t, u \in Threads :
           (/\ t # u
            /\ PresentOf(index[t]) = PresentOf(index[u])
            /\ casDone[t] = "ok") => casDone[u] # "ok"
    /\ \A t \in Threads :
           casDone[t] = "fail" =>
               /\ loaded[t] = UNINIT
               /\ probes[t] = 1
               /\ InitReturned(t)
               /\ installed[PresentOf(index[t])] = <<present[t]>>
               /\ CellOf(t) = ByteOf(present[t])

\* Two calls of one index both probed; the platform changed in between, the
\* later compare_exchange failed, and its call goes on with the boolean of
\* the earlier one, TRUE, where its own probe had produced FALSE.
C15_Witness ==
    \E t, u \in Threads :
        /\ t # u
        /\ index[t] = index[u]
        /\ casDone[u] = "ok"
        /\ probes[u] = 1
        /\ casDone[t] = "fail"
        /\ probes[t] = 1
        /\ pc[t] = "fetch"
        /\ probeRet[t] = <<FALSE>>
        /\ present[t] = TRUE
        /\ CellOf(t) = TRUE_

\* C16: a SysColor::get call that has returned has returned Some exactly when
\* the cell of its index holds TRUE and None exactly when it holds FALSE; the
\* cell is not uninitialized then, and where the call's compare_exchange
\* failed the answer is the boolean installed by the call that won.
C16_ResultMatchesCell ==
    \A t \in Threads :
        pc[t] = "returned" =>
            /\ result[t][1] \in {"Some", "None"}
            /\ CellOf(t) # UNINIT
            /\ result[t][1] = "Some" <=> CellOf(t) = TRUE_
            /\ result[t][1] = "None" <=> CellOf(t) = FALSE_
            /\ casDone[t] = "fail" =>
                   (result[t][1] = "Some"
                        <=> installed[PresentOf(index[t])] = <<TRUE>>)

\* A call whose compare_exchange failed has returned None from a cell that
\* holds FALSE, while the platform now has the brush its index asks for.
C16_Witness ==
    \E t \in Threads :
        /\ pc[t] = "returned"
        /\ casDone[t] = "fail"
        /\ result[t] = <<"None">>
        /\ CellOf(t) = FALSE_
        /\ brush[NativeOf(index[t])]

\* C17: a cell holds 0xFF, 0 or 1 and nothing else; the byte a
\* compare_exchange is about to store is 0 or 1; the catch-all arm of the
\* match is taken for 0xFF only: the `value` of a call that is past the match
\* is 0xFF, and a call that panicked at the unwrap had its compare_exchange
\* return Ok(0xFF).
C17_CellBytes ==
    /\ \A i \in SysColorIndex :
           /\ cell[i] \in {UNINIT, FALSE_, TRUE_}
           /\ Match(cell[i])[1] = "continue" => cell[i] = UNINIT
    /\ \A t \in Threads :
           /\ pc[t] = "cas" => new_value[t] \in {FALSE_, TRUE_}
           /\ pc[t] \in {"probe", "cas"} => value[t] = UNINIT
           /\ pc[t] = "panicked" => casDone[t] = "ok" /\ loaded[t] = UNINIT

\* One cell holds 1 and another 0, and a call that matched 0xFF is about to
\* attempt its compare_exchange on a cell that has been written since.
C17_Witness ==
    /\ \E i, j \in SysColorIndex : cell[i] = TRUE_ /\ cell[j] = FALSE_
    /\ \E t \in Threads :
           /\ pc[t] = "cas"
           /\ value[t] = UNINIT
           /\ CellOf(t) # UNINIT

============================================================================
